---- MODULE Spec2Model ----
(***************************************************************************)
(* Icon scripts of haseab/retrace.                                         *)
(*                                                                         *)
(*   svg_to_icons.py, regenerate_small_icons.py :                          *)
(*       parse_svg_and_render(svg_path, output_path, size) and the driver  *)
(*       loop over the literal (size, filename) list                       *)
(*   fix_triangles.py : restore_white_triangles(image_path)                *)
(*                                                                         *)
(* Strings are sequences of one-character strings, so that str.split,      *)
(* float, int(_, 16), lstrip and slicing are computed, not assumed.        *)
(* Floats are exact rationals <<numerator, denominator>>, denominator > 0. *)
(***************************************************************************)
EXTENDS Integers, Sequences, FiniteSets, TLC

VARIABLES
    script,     \* which script runs: "svg_to_icons" or "regenerate_small_icons"
    doc,        \* the SVG document at svg_path
    size,       \* parse_svg_and_render: argument size
    file,       \* content of the file at output_path
    writes,     \* number of writes parse_svg_and_render made to output_path
    pc,         \* position inside parse_svg_and_render
    exc,        \* the exception that left parse_svg_and_render, or "none"
    tb,         \* its traceback: the statement group that raised it, or "none"
    vb_width,   \* local vb_width
    vb_height,  \* local vb_height
    scale,      \* local scale
    bg_rgb,     \* local bg_rgb
    img,        \* local img: the RGBA raster
    drawn,      \* the arguments of the draw calls made so far, in order
    i,          \* driver loop: index of the next (size, filename) pair
    dpc,        \* driver position: "loop", "done" or "crashed"
    attempted,  \* driver: indices of the pairs handed to parse_svg_and_render
    log,        \* driver: the marker printed for each attempted pair
    fs,         \* driver: per filename, number of writes and last content
    pixels,     \* fix_triangles.py: the pixels of the PNG file at image_path
    orig,       \* the pixels before the first call of restore_white_triangles
    first,      \* the pixels as the first call saved them
    run         \* which call of restore_white_triangles is next: 1, 2, or 3 when over

vars == <<script, doc, size, file, writes, pc, exc, tb, vb_width,
          vb_height, scale, bg_rgb, img, drawn, i, dpc, attempted, log, fs,
          pixels, orig, first, run>>

renderVars == <<size, file, writes, pc, exc, tb, vb_width,
                vb_height, scale, bg_rgb, img, drawn>>
driverVars == <<i, dpc, attempted, log, fs>>
restoreVars == <<pixels, orig, first, run>>

\* a local that is not assigned yet
None == <<>>

\* an attribute the element does not carry (no string of characters equals it)
Absent == <<"absent">>

Min(a, b) == IF a <= b THEN a ELSE b

(***************************************************************************)
(* Python string primitives                                                *)
(***************************************************************************)

RECURSIVE SplitWsAcc(_, _, _)
SplitWsAcc(s, cur, acc) ==
    IF s = <<>>
    THEN IF cur = <<>> THEN acc ELSE Append(acc, cur)
    ELSE IF Head(s) = " "
         THEN SplitWsAcc(Tail(s), <<>>, IF cur = <<>> THEN acc ELSE Append(acc, cur))
         ELSE SplitWsAcc(Tail(s), Append(cur, Head(s)), acc)

\* str.split(): split on runs of whitespace, no empty fields
split(s) == SplitWsAcc(s, <<>>, <<>>)

RECURSIVE SplitSepAcc(_, _, _, _)
SplitSepAcc(s, sep, cur, acc) ==
    IF s = <<>>
    THEN Append(acc, cur)
    ELSE IF Head(s) = sep
         THEN SplitSepAcc(Tail(s), sep, <<>>, Append(acc, cur))
         ELSE SplitSepAcc(Tail(s), sep, Append(cur, Head(s)), acc)

\* str.split(sep): every separator splits, empty fields are kept
splitOn(s, sep) == SplitSepAcc(s, sep, <<>>, <<>>)

DecDigit ==
    [c \in {"0", "1", "2", "3", "4", "5", "6", "7", "8", "9"} |->
        CASE c = "0" -> 0 [] c = "1" -> 1 [] c = "2" -> 2 [] c = "3" -> 3
          [] c = "4" -> 4 [] c = "5" -> 5 [] c = "6" -> 6 [] c = "7" -> 7
          [] c = "8" -> 8 [] c = "9" -> 9]

HexDigit ==
    [c \in DOMAIN DecDigit \cup {"A", "B", "C", "D", "E", "F", "a", "b", "c", "d", "e", "f"} |->
        CASE c \in DOMAIN DecDigit -> DecDigit[c]
          [] c \in {"A", "a"} -> 10 [] c \in {"B", "b"} -> 11
          [] c \in {"C", "c"} -> 12 [] c \in {"D", "d"} -> 13
          [] c \in {"E", "e"} -> 14 [] c \in {"F", "f"} -> 15]

RECURSIVE DigitsValue(_, _, _, _)
DigitsValue(s, digit, base, acc) ==
    IF s = <<>> THEN acc
    ELSE DigitsValue(Tail(s), digit, base, acc * base + digit[Head(s)])

\* float(s) on the literals of the model: an unsigned decimal integer is a
\* number; the empty string and any other character raise ValueError.
\* Result: [ok |-> BOOLEAN, val |-> rational].
float(s) ==
    IF s # <<>> /\ \A n \in 1..Len(s) : s[n] \in DOMAIN DecDigit
    THEN [ok |-> TRUE, val |-> <<DigitsValue(s, DecDigit, 10, 0), 1>>]
    ELSE [ok |-> FALSE, val |-> None]

\* int(s, 16): hexadecimal digits only; the empty string raises ValueError.
int16(s) ==
    IF s # <<>> /\ \A n \in 1..Len(s) : s[n] \in DOMAIN HexDigit
    THEN [ok |-> TRUE, val |-> DigitsValue(s, HexDigit, 16, 0)]
    ELSE [ok |-> FALSE, val |-> None]

RECURSIVE lstrip(_, _)
lstrip(s, ch) == IF s # <<>> /\ Head(s) = ch THEN lstrip(Tail(s), ch) ELSE s

\* s[a:b] for 0 <= a <= b
slice(s, a, b) == SubSeq(s, a + 1, Min(b, Len(s)))

(***************************************************************************)
(* Rationals                                                               *)
(***************************************************************************)

RECURSIVE Gcd(_, _)
Gcd(a, b) == IF b = 0 THEN a ELSE Gcd(b, a % b)

Abs(n) == IF n < 0 THEN 0 - n ELSE n

\* lowest terms, positive denominator
RNorm(n, d) ==
    LET g == Gcd(Abs(n), Abs(d))
        sgn == IF d < 0 THEN 0 - 1 ELSE 1
    IN  <<sgn * (n \div g), sgn * (d \div g)>>

RInt(n) == <<n, 1>>
RMul(a, b) == RNorm(a[1] * b[1], a[2] * b[2])
RDiv(a, b) == RNorm(a[1] * b[2], a[2] * b[1])
RAdd(a, b) == RNorm(a[1] * b[2] + b[1] * a[2], a[2] * b[2])
RSub(a, b) == RNorm(a[1] * b[2] - b[1] * a[2], a[2] * b[2])
RSquare(a) == RMul(a, a)
RLess(a, b) == a[1] * b[2] < b[1] * a[2]
REq(a, b) == a[1] * b[2] = b[1] * a[2]
RMin(a, b) == IF RLess(b, a) THEN b ELSE a

(***************************************************************************)
(* The document: what ElementTree hands to parse_svg_and_render.           *)
(*   viewBox  : the root's viewBox attribute, or Absent                     *)
(*   stops    : the stop elements in document order, each by its            *)
(*              stop-color attribute, or Absent                            *)
(*   rect     : whether a rect element is present, and its rx attribute     *)
(*   polygons : the polygon elements in document order, each by its points  *)
(*              attribute                                                   *)
(***************************************************************************)

MaxSize == 6

\* target sizes the render is checked at
TargetSizes == (MaxSize - 1)..MaxSize

Scripts == {"svg_to_icons", "regenerate_small_icons"}

vb_0_0_6_6 == <<"0", " ", "0", " ", "6", " ", "6">>
vb_0_0_3_6 == <<"0", " ", "0", " ", "3", " ", "6">>
vb_0_0_6 == <<"0", " ", "0", " ", "6">>
vb_0_0_x_6 == <<"0", " ", "0", " ", "x", " ", "6">>
vb_0_0_6_x == <<"0", " ", "0", " ", "6", " ", "x">>
vb_0_0_0_6 == <<"0", " ", "0", " ", "0", " ", "6">>

ViewBoxes == {Absent, vb_0_0_6_6, vb_0_0_3_6, vb_0_0_6, vb_0_0_x_6, vb_0_0_6_x, vb_0_0_0_6}

hex_0B3571 == <<"#", "0", "B", "3", "5", "7", "1">>
hex_082B5F == <<"#", "0", "8", "2", "B", "5", "F">>
hex_FFFFFF == <<"#", "F", "F", "F", "F", "F", "F">>
hex_fff == <<"#", "f", "f", "f">>

StopLists ==
    { <<>>, <<hex_0B3571>>, <<hex_0B3571, hex_082B5F>>, <<hex_0B3571, hex_FFFFFF>>,
      <<hex_FFFFFF, hex_082B5F>>, <<Absent, hex_082B5F>>, <<hex_fff, hex_082B5F>> }

Rects ==
    { [present |-> FALSE, rx |-> Absent], [present |-> TRUE, rx |-> Absent],
      [present |-> TRUE, rx |-> <<"1">>], [present |-> TRUE, rx |-> <<"2">>],
      [present |-> TRUE, rx |-> <<"x">>] }

pts_corner == <<"0", ",", "0", " ", "2", ",", "0", " ", "0", ",", "2">>
pts_inner == <<"3", ",", "2", " ", "4", ",", "4", " ", "2", ",", "4">>
pts_no_comma == <<"0", ",", "0", " ", "2", " ", "0", ",", "2">>
pts_three_fields == <<"0", ",", "0", " ", "2", ",", "0", ",", "1", " ", "0", ",", "2">>
pts_not_number == <<"0", ",", "0", " ", "x", ",", "0", " ", "0", ",", "2">>

PolygonLists ==
    { <<>>, <<pts_corner>>, <<pts_inner, pts_corner>>, <<pts_inner, pts_no_comma>>,
      <<pts_three_fields, pts_corner>>, <<pts_corner, pts_not_number, pts_inner>> }

Docs == [viewBox : ViewBoxes, stops : StopLists, rect : Rects, polygons : PolygonLists]

NoFile == "NoFile"
Stale == "Stale"

(***************************************************************************)
(* parse_svg_and_render, statement by statement                            *)
(***************************************************************************)

\* a default written with the wrong width
default_viewBox_10 == <<"0", " ", "0", " ", "1", "0", " ", "1", "0">>

default_viewBox == <<"0", " ", "0", " ", "1", "0", "0", " ", "1", "0", "0">>
default_stop_color == hex_0B3571

Transparent == <<0, 0, 0, 0>>
White == <<255, 255, 255, 255>>

\* root.get('viewBox', '0 0 100 100').split(); float(viewbox[2]); float(viewbox[3])
GetViewBox(d) ==
    LET viewbox == split(IF d.viewBox = Absent THEN default_viewBox ELSE d.viewBox)
        raise(e) == [exc |-> e, vb_width |-> None, vb_height |-> None]
    IN  IF Len(viewbox) < 3 THEN raise("IndexError")
        ELSE IF ~float(viewbox[3]).ok THEN raise("ValueError")
        ELSE IF Len(viewbox) < 4 THEN raise("IndexError")
        ELSE IF ~float(viewbox[4]).ok THEN raise("ValueError")
        ELSE [exc |-> "none", vb_width |-> float(viewbox[3]).val,
              vb_height |-> float(viewbox[4]).val]

\* a canvas that starts opaque white instead of transparent
NewImageWhite(sz) == [p \in (0..(sz - 1)) \X (0..(sz - 1)) |-> <<255, 255, 255, 255>>]

\* Image.new('RGBA', (size, size), (0, 0, 0, 0))
NewImage(sz) == [p \in (0..(sz - 1)) \X (0..(sz - 1)) |-> Transparent]

\* scale = size / vb_width
Scale(sz, w) ==
    IF w[1] = 0 THEN [exc |-> "ZeroDivisionError", scale |-> None]
    ELSE [exc |-> "none", scale |-> RDiv(RInt(sz), w)]

\* tuple(int(color.lstrip('#')[i:i+2], 16) for i in (0, 2, 4))
HexToRgb(color) ==
    LET h == lstrip(color, "#")
        r == int16(slice(h, 0, 2))
        g == int16(slice(h, 2, 4))
        b == int16(slice(h, 4, 6))
    IN  IF r.ok /\ g.ok /\ b.ok
        THEN [exc |-> "none", rgb |-> <<r.val, g.val, b.val>>]
        ELSE [exc |-> "ValueError", rgb |-> None]

\* element.get('stop-color', default)
StopColor(stop) == IF stop = Absent THEN default_stop_color ELSE stop

\* gradient_stops[0].get(...), and in svg_to_icons.py gradient_stops[1].get(...),
\* then the conversion of color_start
ParseGradient(sc, d) ==
    IF Len(d.stops) < 1 THEN [exc |-> "IndexError", rgb |-> None]
    ELSE IF sc = "svg_to_icons" /\ Len(d.stops) < 2 THEN [exc |-> "IndexError", rgb |-> None]
    ELSE HexToRgb(StopColor(d.stops[1]))

\* float(rect.get('rx', 0)) * scale
CornerRadius(rect, sc) ==
    IF rect.rx = Absent THEN [exc |-> "none", rx |-> RMul(RInt(0), sc)]
    ELSE IF float(rect.rx).ok THEN [exc |-> "none", rx |-> RMul(float(rect.rx).val, sc)]
    ELSE [exc |-> "ValueError", rx |-> None]

\* only the x coordinate is scaled
ScaledPointXOnly(x, y, sc) == <<RMul(x, sc), y>>

\* (float(x) * scale, float(y) * scale)
ScaledPoint(x, y, sc) == <<RMul(x, sc), RMul(y, sc)>>

\* the loop over points_str.split(): x, y = point.split(','), float(x), float(y)
RECURSIVE ParseTokens(_, _, _)
ParseTokens(tokens, sc, points) ==
    IF tokens = <<>> THEN [exc |-> "none", points |-> points]
    ELSE LET xy == splitOn(Head(tokens), ",")
         IN  IF Len(xy) # 2 THEN [exc |-> "ValueError", points |-> points]
             ELSE IF ~float(xy[1]).ok \/ ~float(xy[2]).ok
                  THEN [exc |-> "ValueError", points |-> points]
                  ELSE ParseTokens(Tail(tokens), sc,
                           Append(points, ScaledPoint(float(xy[1]).val, float(xy[2]).val, sc)))

\* a token that does not parse is skipped instead of raising
RECURSIVE ParseTokensSkipping(_, _, _)
ParseTokensSkipping(tokens, sc, points) ==
    IF tokens = <<>> THEN [exc |-> "none", points |-> points]
    ELSE LET xy == splitOn(Head(tokens), ",")
         IN  IF Len(xy) # 2 \/ ~float(xy[1]).ok \/ ~float(xy[Min(2, Len(xy))]).ok
             THEN ParseTokensSkipping(Tail(tokens), sc, points)
             ELSE ParseTokensSkipping(Tail(tokens), sc,
                      Append(points, ScaledPoint(float(xy[1]).val, float(xy[2]).val, sc)))

ParsePointsSkipping(points_str, sc) == ParseTokensSkipping(split(points_str), sc, <<>>)

ParsePoints(points_str, sc) == ParseTokens(split(points_str), sc, <<>>)

(***************************************************************************)
(* The drawing primitives of PIL.ImageDraw, on pixel coordinates: a pixel  *)
(* is filled when its coordinate lies in the closed shape.                 *)
(***************************************************************************)

\* the pixels of the box [(0, 0), (sz, sz)] that the rounded corners of radius
\* `radius` leave out (the radius is at most half the side)
InCornerCut(p, sz, radius) ==
    LET r == RMin(radius, <<sz, 2>>)
        far == RSub(RInt(sz), r)
        x == RInt(p[1])
        y == RInt(p[2])
        lowX == RLess(x, r)
        lowY == RLess(y, r)
        highX == RLess(far, x)
        highY == RLess(far, y)
        cx == IF lowX THEN r ELSE far
        cy == IF lowY THEN r ELSE far
    IN  /\ lowX \/ highX
        /\ lowY \/ highY
        /\ RLess(RSquare(r), RAdd(RSquare(RSub(x, cx)), RSquare(RSub(y, cy))))

InRoundedRectangle(p, sz, radius) ==
    /\ 0 <= p[1] /\ p[1] <= sz
    /\ 0 <= p[2] /\ p[2] <= sz
    /\ ~InCornerCut(p, sz, radius)

\* (b - a) x (p - a)
Cross(a, b, p) ==
    RSub(RMul(RSub(b[1], a[1]), RSub(RInt(p[2]), a[2])),
         RMul(RSub(b[2], a[2]), RSub(RInt(p[1]), a[1])))

\* p lies in the closed polygon `points` (convex: the icon's triangles)
InPolygon(p, points) ==
    LET n == Len(points)
        edge(k) == Cross(points[k], points[(k % n) + 1], p)[1]
    IN  /\ n >= 3
        /\ \/ \A k \in 1..n : edge(k) >= 0
           \/ \A k \in 1..n : edge(k) <= 0

\* draw.rounded_rectangle([(0, 0), (size, size)], radius=rx, fill=fill)
FillRoundedRectangle(im, sz, radius, fill) ==
    [p \in DOMAIN im |-> IF InRoundedRectangle(p, sz, radius) THEN fill ELSE im[p]]

\* the fill is composited under what is already drawn instead of replacing it
FillPolygonUnder(im, points, fill) ==
    [p \in DOMAIN im |->
        IF InPolygon(p, points) /\ im[p][4] = 0 THEN fill ELSE im[p]]

\* draw.polygon(points, fill=fill)
FillPolygon(im, points, fill) ==
    [p \in DOMAIN im |-> IF InPolygon(p, points) THEN fill ELSE im[p]]

Opaque(rgb) == <<rgb[1], rgb[2], rgb[3], 255>>

\* the polygon elements drawn so far
RECURSIVE CountPolygons(_)
CountPolygons(calls) ==
    IF calls = <<>> THEN 0
    ELSE (IF Head(calls).op = "polygon" THEN 1 ELSE 0) + CountPolygons(Tail(calls))

\* PNG files: what img.save leaves at output_path
Written(im) == [state |-> "written", image |-> im]

(***************************************************************************)
(* parse_svg_and_render as a process: one action per statement group       *)
(***************************************************************************)

RenderIdle ==
    /\ size = 0 /\ file = None /\ writes = 0 /\ pc = "idle" /\ exc = "none" /\ tb = "none"
    /\ vb_width = None /\ vb_height = None /\ scale = None /\ bg_rgb = None
    /\ img = None /\ drawn = <<>>

DriverIdle == i = 0 /\ dpc = "idle" /\ attempted = <<>> /\ log = <<>> /\ fs = <<>>

RestoreIdle == pixels = <<>> /\ orig = <<>> /\ first = <<>> /\ run = 0

\* a call parse_svg_and_render(svg_path, output_path, size) of either script
InitRender ==
    /\ script \in Scripts
    /\ doc \in Docs
    /\ size \in TargetSizes
    /\ file \in {[state |-> NoFile, image |-> None], [state |-> Stale, image |-> None]}
    /\ writes = 0
    /\ pc = "start"
    /\ exc = "none"
    /\ tb = "none"
    /\ vb_width = None
    /\ vb_height = None
    /\ scale = None
    /\ bg_rgb = None
    /\ img = None
    /\ drawn = <<>>
    /\ DriverIdle
    /\ RestoreIdle

Raise(where, e) == pc' = "raised" /\ exc' = e /\ tb' = where

\* tree = ET.parse(svg_path); root = tree.getroot()
ParseTree ==
    /\ pc = "start"
    /\ \E readable \in BOOLEAN :
          IF readable THEN pc' = "viewbox" /\ UNCHANGED <<exc, tb>> ELSE Raise("ParseTree", "ParseError")
    /\ UNCHANGED <<script, doc, size, file, writes, vb_width, vb_height, scale,
                   bg_rgb, img, drawn, driverVars, restoreVars>>

\* viewbox = ...; vb_width = float(viewbox[2]); vb_height = float(viewbox[3])
ReadViewBox ==
    /\ pc = "viewbox"
    /\ LET r == GetViewBox(doc)
       IN  IF r.exc = "none"
           THEN /\ vb_width' = r.vb_width
                /\ vb_height' = r.vb_height
                /\ pc' = "image"
                /\ UNCHANGED <<exc, tb>>
           ELSE /\ Raise("ReadViewBox", r.exc)
                /\ UNCHANGED <<vb_width, vb_height>>
    /\ UNCHANGED <<script, doc, size, file, writes, scale, bg_rgb, img, drawn,
                   driverVars, restoreVars>>

\* img = Image.new(...); draw = ImageDraw.Draw(img); scale = size / vb_width
CreateImage ==
    /\ pc = "image"
    /\ img' = NewImage(size)
    /\ LET r == Scale(size, vb_width)
       IN  IF r.exc = "none"
           THEN scale' = r.scale /\ pc' = "gradient" /\ UNCHANGED <<exc, tb>>
           ELSE Raise("CreateImage", r.exc) /\ scale' = scale
    /\ UNCHANGED <<script, doc, size, file, writes, vb_width, vb_height, bg_rgb,
                   drawn, driverVars, restoreVars>>

\* gradient_stops = ...; color_start = ...; (color_end = ...;) bg_rgb = ...
ReadGradient ==
    /\ pc = "gradient"
    /\ LET r == ParseGradient(script, doc)
       IN  IF r.exc = "none"
           THEN bg_rgb' = r.rgb /\ pc' = "rect" /\ UNCHANGED <<exc, tb>>
           ELSE Raise("ReadGradient", r.exc) /\ bg_rgb' = bg_rgb
    /\ UNCHANGED <<script, doc, size, file, writes, vb_width, vb_height, scale,
                   img, drawn, driverVars, restoreVars>>

\* rect = root.find(...); if rect is not None: rx = ...; draw.rounded_rectangle(...)
DrawBackground ==
    /\ pc = "rect"
    /\ IF ~doc.rect.present
       THEN pc' = "polygons" /\ UNCHANGED <<exc, tb, img, drawn>>
       ELSE LET r == CornerRadius(doc.rect, scale)
            IN  IF r.exc = "none"
                THEN /\ img' = FillRoundedRectangle(img, size, r.rx, Opaque(bg_rgb))
                     /\ drawn' = Append(drawn, [op |-> "rounded_rectangle", radius |-> r.rx,
                                                points |-> <<>>, fill |-> Opaque(bg_rgb)])
                     /\ pc' = "polygons"
                     /\ UNCHANGED <<exc, tb>>
                ELSE Raise("DrawBackground", r.exc) /\ UNCHANGED <<img, drawn>>
    /\ UNCHANGED <<script, doc, size, file, writes, vb_width, vb_height, scale,
                   bg_rgb, driverVars, restoreVars>>

\* one iteration of: for poly in polygons: points = ...; draw.polygon(points, fill)
DrawPolygon ==
    /\ pc = "polygons"
    /\ CountPolygons(drawn) < Len(doc.polygons)
    /\ LET r == ParsePoints(doc.polygons[CountPolygons(drawn) + 1], scale)
       IN  IF r.exc = "none"
           THEN /\ img' = FillPolygon(img, r.points, White)
                /\ drawn' = Append(drawn, [op |-> "polygon", radius |-> <<0, 1>>,
                                           points |-> r.points, fill |-> White])
                /\ UNCHANGED <<pc, exc, tb>>
           ELSE Raise("DrawPolygon", r.exc) /\ UNCHANGED <<img, drawn>>
    /\ UNCHANGED <<script, doc, size, file, writes, vb_width, vb_height, scale,
                   bg_rgb, driverVars, restoreVars>>

\* img.save(output_path, 'PNG')
SaveImage ==
    /\ pc = "polygons"
    /\ CountPolygons(drawn) = Len(doc.polygons)
    /\ \E writable \in BOOLEAN :
          IF writable
          THEN /\ file' = Written(img)
               /\ writes' = writes + 1
               /\ pc' = "returned"
               /\ UNCHANGED <<exc, tb>>
          ELSE Raise("SaveImage", "IOError") /\ UNCHANGED <<file, writes>>
    /\ UNCHANGED <<script, doc, size, vb_width, vb_height, scale, bg_rgb, img,
                   drawn, driverVars, restoreVars>>

(***************************************************************************)
(* parse_svg_and_render as a function of (script, document, size), for a   *)
(* readable svg_path and a writable output_path: the exception it raises   *)
(* and the raster it saves.                                                *)
(***************************************************************************)

\* the exception of the first polygon whose points do not parse
RECURSIVE PolygonsExc(_, _)
PolygonsExc(polys, sc) ==
    IF polys = <<>> THEN "none"
    ELSE IF ParsePoints(Head(polys), sc).exc # "none" THEN ParsePoints(Head(polys), sc).exc
    ELSE PolygonsExc(Tail(polys), sc)

\* the exception the call raises, "none" when it returns
RenderExc(sc, d, sz) ==
    LET vb == GetViewBox(d)
        s == Scale(sz, vb.vb_width)
        g == ParseGradient(sc, d)
        rx == CornerRadius(d.rect, s.scale)
    IN  IF vb.exc # "none" THEN vb.exc
        ELSE IF s.exc # "none" THEN s.exc
        ELSE IF g.exc # "none" THEN g.exc
        ELSE IF d.rect.present /\ rx.exc # "none" THEN rx.exc
        ELSE PolygonsExc(d.polygons, s.scale)

RECURSIVE DrawAllPolygons(_, _, _)
DrawAllPolygons(polys, sc, im) ==
    IF polys = <<>> THEN im
    ELSE DrawAllPolygons(Tail(polys), sc,
                         FillPolygon(im, ParsePoints(Head(polys), sc).points, White))

\* the raster the call saves when it returns
RenderImage(sc, d, sz) ==
    LET s == Scale(sz, GetViewBox(d).vb_width).scale
        im0 == NewImage(sz)
        im1 == IF d.rect.present
               THEN FillRoundedRectangle(im0, sz, CornerRadius(d.rect, s).rx,
                                         Opaque(ParseGradient(sc, d).rgb))
               ELSE im0
    IN  DrawAllPolygons(d.polygons, s, im1)

Render(sc, d, sz) ==
    [exc |-> RenderExc(sc, d, sz),
     image |-> IF RenderExc(sc, d, sz) = "none" THEN RenderImage(sc, d, sz) ELSE None]

\* The process and the function agree on every document.
RenderAgrees ==
    /\ pc = "returned" =>
          /\ Render(script, doc, size).exc = "none"
          /\ Render(script, doc, size).image = file.image
    /\ (pc = "raised" /\ tb \notin {"ParseTree", "SaveImage"}) =>
          Render(script, doc, size).exc = exc
    /\ tb = "SaveImage" => Render(script, doc, size).exc = "none"

(***************************************************************************)
(* The driver loops of svg_to_icons.py and regenerate_small_icons.py        *)
(***************************************************************************)

\* the list with the name of icon_32x32.png given to two entries
sizes_with_repeated_name ==
    << <<16, "icon_16x16.png">>, <<32, "icon_32x32.png">>, <<32, "icon_32x32.png">>,
       <<64, "icon_32x32@2x.png">>, <<128, "icon_128x128.png">>,
       <<256, "icon_128x128@2x.png">>, <<256, "icon_256x256.png">>,
       <<512, "icon_256x256@2x.png">>, <<512, "icon_512x512.png">>,
       <<1024, "icon_512x512@2x.png">> >>

\* svg_to_icons.py: sizes
sizes_svg_to_icons ==
    << <<16, "icon_16x16.png">>, <<32, "icon_16x16@2x.png">>, <<32, "icon_32x32.png">>,
       <<64, "icon_32x32@2x.png">>, <<128, "icon_128x128.png">>,
       <<256, "icon_128x128@2x.png">>, <<256, "icon_256x256.png">>,
       <<512, "icon_256x256@2x.png">>, <<512, "icon_512x512.png">>,
       <<1024, "icon_512x512@2x.png">> >>

\* regenerate_small_icons.py: sizes
sizes_regenerate_small_icons ==
    << <<16, "icon_16x16.png">>, <<32, "icon_16x16@2x.png">>, <<32, "icon_32x32.png">>,
       <<64, "icon_32x32@2x.png">> >>

sizes(sc) == IF sc = "svg_to_icons" THEN sizes_svg_to_icons ELSE sizes_regenerate_small_icons

Filenames(sc) == {sizes(sc)[k][2] : k \in 1..Len(sizes(sc))}

\* only ValueError is handled
CaughtValueErrorOnly(e) == e = "ValueError"

\* except Exception as e: every exception the render raises is an Exception
Caught(e) == e \in {"ParseError", "IndexError", "ValueError", "ZeroDivisionError", "IOError"}

\* the documents the driver is run on
DriverDocs ==
    {d \in Docs : /\ d.viewBox = vb_0_0_6_6
                  /\ d.rect = [present |-> TRUE, rx |-> <<"2">>]
                  /\ d.stops \in {<<hex_0B3571>>, <<hex_0B3571, hex_082B5F>>}
                  /\ d.polygons \in {<<pts_inner, pts_corner>>, <<pts_inner, pts_no_comma>>}}

\* the top-level run of either script, up to its loop
InitDriver ==
    /\ script \in Scripts
    /\ doc \in DriverDocs
    /\ i = 1
    /\ dpc = "loop"
    /\ attempted = <<>>
    /\ log = <<>>
    /\ \E before \in {NoFile, Stale} :
          fs = [f \in Filenames(script) |-> [state |-> before, size |-> 0, writes |-> 0]]
    /\ RenderIdle
    /\ RestoreIdle

\* one iteration of: for size, filename in sizes: try: parse_svg_and_render(...)
\*                   except Exception as e: print(error marker)
RenderPair ==
    /\ dpc = "loop"
    /\ i <= Len(sizes(script))
    /\ attempted' = Append(attempted, i)
    /\ \E readable \in BOOLEAN, writable \in BOOLEAN :
          LET sz == sizes(script)[i][1]
              filename == sizes(script)[i][2]
              r == RenderExc(script, doc, sz)
              e == IF ~readable THEN "ParseError"
                   ELSE IF r # "none" THEN r
                   ELSE IF ~writable THEN "IOError" ELSE "none"
          IN  IF e = "none"
              THEN /\ fs' = [fs EXCEPT ![filename] =
                                [state |-> "written", size |-> sz, writes |-> @.writes + 1]]
                   /\ log' = Append(log, "created")
                   /\ i' = i + 1
                   /\ dpc' = dpc
              ELSE IF Caught(e)
                   THEN /\ log' = Append(log, "error")
                        /\ i' = i + 1
                        /\ UNCHANGED <<fs, dpc>>
                   ELSE /\ dpc' = "crashed"
                        /\ UNCHANGED <<fs, log, i>>
    /\ UNCHANGED <<script, doc, renderVars, restoreVars>>

\* the loop is over: print("Done!")
FinishBatch ==
    /\ dpc = "loop"
    /\ i > Len(sizes(script))
    /\ dpc' = "done"
    /\ UNCHANGED <<script, doc, i, attempted, log, fs, renderVars, restoreVars>>

(***************************************************************************)
(* fix_triangles.py: restore_white_triangles                               *)
(***************************************************************************)

\* icons are square: IconSide x IconSide pixels
IconSide == 2

\* a < 255 and r >= 200 and g >= 200 and b >= 200
LikelyWhite(px) == px[4] < 255 /\ px[1] >= 200 /\ px[2] >= 200 /\ px[3] >= 200

\* any opaque neighbour counts as inside the icon
IsOpaque(px) == px[4] > 200

\* na > 200 and nb > 100 and nr < 100 and ng < 100
IsBlue(px) == px[4] > 200 /\ px[3] > 100 /\ px[1] < 100 /\ px[2] < 100

\* the loops over dy, dx: some neighbour inside the image is blue
IsInside(px, width, height, x, y) ==
    \E dy \in {0 - 1, 0, 1}, dx \in {0 - 1, 0, 1} :
        /\ ~(dx = 0 /\ dy = 0)
        /\ 0 <= y + dy /\ y + dy < height
        /\ 0 <= x + dx /\ x + dx < width
        /\ IsBlue(px[<<x + dx, y + dy>>])

\* the body of the scan at (x, y), on the buffer as it is then
VisitPixel(px, width, height, x, y) ==
    IF LikelyWhite(px[<<x, y>>]) /\ IsInside(px, width, height, x, y)
    THEN [px EXCEPT ![<<x, y>>] = <<255, 255, 255, 255>>]
    ELSE px

\* the scan over `order`, a sequence of positions, each visit on the buffer
\* the earlier visits left
RECURSIVE ScanInOrder(_, _, _, _)
ScanInOrder(px, width, height, order) ==
    IF order = <<>> THEN px
    ELSE ScanInOrder(VisitPixel(px, width, height, Head(order)[1], Head(order)[2]),
                     width, height, Tail(order))

\* for y in range(height): for x in range(width)
RowMajor(width, height) ==
    [n \in 1..(width * height) |-> <<(n - 1) % width, (n - 1) \div width>>]

\* restore_white_triangles on the pixels of the file
restore_white_triangles(px, width, height) ==
    ScanInOrder(px, width, height, RowMajor(width, height))

Palette ==
    { <<255, 255, 255, 0>>,      \* white made transparent
      <<200, 200, 200, 254>>,    \* near white, nearly opaque
      <<11, 53, 113, 255>>,      \* the icon's blue
      <<99, 99, 101, 201>> }     \* blue at the thresholds

\* the script is run on a PNG file
InitRestore ==
    /\ script = "fix_triangles"
    /\ doc = None
    /\ pixels \in [(0..(IconSide - 1)) \X (0..(IconSide - 1)) -> Palette]
    /\ orig = pixels
    /\ first = None
    /\ run = 1
    /\ RenderIdle
    /\ DriverIdle

\* restore_white_triangles(png_file): open, scan, save
RestoreWhiteTriangles ==
    /\ run \in {1, 2}
    /\ pixels' = restore_white_triangles(pixels, IconSide, IconSide)
    /\ first' = IF run = 1 THEN pixels' ELSE first
    /\ run' = run + 1
    /\ UNCHANGED <<script, doc, orig, renderVars, driverVars>>

(***************************************************************************)
(* A run of the repository is a run of one of the scripts.                 *)
(***************************************************************************)

Init == InitRender \/ InitDriver \/ InitRestore

Next ==
    \/ ParseTree
    \/ ReadViewBox
    \/ CreateImage
    \/ ReadGradient
    \/ DrawBackground
    \/ DrawPolygon
    \/ SaveImage
    \/ RenderPair
    \/ FinishBatch
    \/ RestoreWhiteTriangles

Spec == Init /\ [][Next]_vars

\* the driver is a sequential program: a loop that can take a step takes it
FairSpec == Spec /\ WF_vars(RenderPair) /\ WF_vars(FinishBatch)

(***************************************************************************)
(* Properties of parse_svg_and_render                                      *)
(***************************************************************************)

\* number of statement groups that ran to their end
StepsCompleted ==
    LET afterPc == [q \in {"idle", "start", "viewbox", "image", "gradient", "rect", "polygons",
                           "returned"} |->
                       CASE q \in {"idle", "start"} -> 0 [] q = "viewbox" -> 1 [] q = "image" -> 2
                         [] q = "gradient" -> 3 [] q = "rect" -> 4 [] q = "polygons" -> 5
                         [] q = "returned" -> 7]
        beforeTb == [a \in {"ParseTree", "ReadViewBox", "CreateImage", "ReadGradient",
                            "DrawBackground", "DrawPolygon", "SaveImage"} |->
                       CASE a = "ParseTree" -> 0 [] a = "ReadViewBox" -> 1
                         [] a = "CreateImage" -> 2 [] a = "ReadGradient" -> 3
                         [] a = "DrawBackground" -> 4 [] a = "DrawPolygon" -> 5
                         [] a = "SaveImage" -> 6]
    IN  IF pc = "raised" THEN beforeTb[tb] ELSE afterPc[pc]

ViewBoxRead == StepsCompleted >= 2 \/ tb = "ReadViewBox"
ScaleComputed == StepsCompleted >= 3
GradientRead == StepsCompleted >= 4 \/ tb = "ReadGradient"

NeverWritten == file.state \in {NoFile, Stale} /\ writes = 0

DefaultRgb == <<11, 53, 113>>

\* C2 (as claimed): a document with no gradient stop does not make the render
\* fail at the gradient; the background colour is then #0B3571 = (11, 53, 113).
C2_NoStopFallsBackToDefault ==
    (GradientRead /\ Len(doc.stops) = 0) =>
        /\ tb # "ReadGradient"
        /\ bg_rgb = DefaultRgb

\* C3 (as claimed): documents that differ only in the stops after the first one
\* have the same outcome: the same exception or the same saved raster.
C3_OnlyFirstStopConsulted ==
    (pc \in {"returned", "raised"} /\ tb \notin {"ParseTree", "SaveImage"}
        /\ Len(doc.stops) >= 1) =>
        \A t \in {u \in StopLists \cup {<<doc.stops[1]>>} :
                     Len(u) >= 1 /\ u[1] = doc.stops[1]} :
            LET other == Render(script, [doc EXCEPT !.stops = t], size)
            IN  /\ other.exc = exc
                /\ pc = "returned" => other.image = file.image

\* the viewBox has fewer than four fields or a width field that is no number
MalformedViewBox(vb) ==
    /\ vb # Absent
    /\ \/ Len(split(vb)) < 4
       \/ ~float(split(vb)[3]).ok

\* the viewBox has four fields, the width a number, the height not
MalformedHeight(vb) ==
    /\ vb # Absent
    /\ Len(split(vb)) >= 4
    /\ float(split(vb)[3]).ok
    /\ ~float(split(vb)[4]).ok

\* C4 (as claimed): with the viewBox absent or malformed the render does not
\* raise at the viewBox; it uses width 100 and scale = size / 100.
C4_AbsentOrMalformedViewBoxIs100 ==
    (ViewBoxRead /\ (doc.viewBox = Absent \/ MalformedViewBox(doc.viewBox))) =>
        /\ tb # "ReadViewBox"
        /\ vb_width = <<100, 1>>
        /\ ScaleComputed => REq(scale, <<size, 100>>)

\* C4 (amended): an absent viewBox gives width 100 and scale = size / 100 without
\* raising; a viewBox with fewer than four fields or a non-numeric width or
\* height raises IndexError or ValueError before anything is drawn or written.
C4_Only_AbsentViewBoxIs100 ==
    /\ (ViewBoxRead /\ doc.viewBox = Absent) =>
          /\ tb # "ReadViewBox"
          /\ vb_width = <<100, 1>>
          /\ tb # "CreateImage"
          /\ ScaleComputed => REq(scale, <<size, 100>>)
    /\ (ViewBoxRead /\ (MalformedViewBox(doc.viewBox) \/ MalformedHeight(doc.viewBox))) =>
          /\ pc = "raised"
          /\ tb = "ReadViewBox"
          /\ exc \in {"IndexError", "ValueError"}
          /\ exc = "IndexError" <=> Len(split(doc.viewBox)) < 4 /\
                 (Len(split(doc.viewBox)) < 3 \/ float(split(doc.viewBox)[3]).ok)
          /\ drawn = <<>>
          /\ NeverWritten

C4_AbsentViewBoxScaled ==
    /\ pc = "returned"
    /\ doc.viewBox = Absent
    /\ REq(scale, <<size, 100>>)

\* the token is exactly one 'x,y' pair of numbers
WellFormedPair(token) ==
    \E c \in 2..(Len(token) - 1) :
        /\ token[c] = ","
        /\ \A n \in 1..Len(token) : n # c => token[n] \in DOMAIN DecDigit

MalformedPoints(points_str) ==
    LET tokens == split(points_str)
    IN  \E n \in 1..Len(tokens) : ~WellFormedPair(tokens[n])

MalformedPolygons(d) == {k \in 1..Len(d.polygons) : MalformedPoints(d.polygons[k])}

FirstMalformed(d) ==
    CHOOSE k \in MalformedPolygons(d) : \A m \in MalformedPolygons(d) : k <= m

\* the raster after the rectangle and the first n polygons
RECURSIVE Partial(_, _, _)
Partial(d, sz, n) ==
    IF n = 0
    THEN IF d.rect.present
         THEN FillRoundedRectangle(NewImage(sz), sz, CornerRadius(d.rect, scale).rx,
                                   Opaque(bg_rgb))
         ELSE NewImage(sz)
    ELSE FillPolygon(Partial(d, sz, n - 1), ParsePoints(d.polygons[n], scale).points,
                     White)

\* C5: a malformed point string aborts the render with the exception: no polygon
\* at or after the malformed one is drawn and the output file is never written
\* or modified, while the earlier draws stay in the in-memory raster.
C5_MalformedPointsAbort ==
    (pc # "idle" /\ MalformedPolygons(doc) # {}) =>
        /\ pc # "returned"
        /\ NeverWritten
        /\ CountPolygons(drawn) < FirstMalformed(doc)
        /\ tb = "DrawPolygon" =>
              /\ pc = "raised"
              /\ exc = "ValueError"
              /\ CountPolygons(drawn) = FirstMalformed(doc) - 1
              /\ img = Partial(doc, size, FirstMalformed(doc) - 1)
        /\ tb # "SaveImage"

C5_AbortAfterDrawing ==
    /\ tb = "DrawPolygon"
    /\ doc.rect.present
    /\ CountPolygons(drawn) >= 1
    /\ FirstMalformed(doc) < Len(doc.polygons)
    /\ file.state = Stale
    /\ \E p \in DOMAIN img : img[p] = White
    /\ \E p \in DOMAIN img : img[p] = Opaque(bg_rgb)

\* the pixel lies in polygon k of the document, scaled
CoveredByPolygon(p, k) == InPolygon(p, ParsePoints(doc.polygons[k], scale).points)

CoveredByRectangle(p) ==
    /\ doc.rect.present
    /\ InRoundedRectangle(p, size, CornerRadius(doc.rect, scale).rx)

\* C6: after a successful render a pixel under any polygon is opaque white,
\* whether or not the rectangle covers it; any other pixel is the opaque
\* background colour inside the rounded rectangle of a document that has one,
\* and fully transparent otherwise.
C6_LaterShapesReplace ==
    pc = "returned" =>
        \A p \in DOMAIN file.image :
            file.image[p] =
                IF \E k \in 1..Len(doc.polygons) : CoveredByPolygon(p, k)
                THEN <<255, 255, 255, 255>>
                ELSE IF CoveredByRectangle(p)
                     THEN <<bg_rgb[1], bg_rgb[2], bg_rgb[3], 255>>
                     ELSE <<0, 0, 0, 0>>

C6_AllThreeKinds ==
    /\ pc = "returned"
    /\ Len(doc.polygons) = 2
    /\ bg_rgb = DefaultRgb
    /\ \E p \in DOMAIN file.image :
          CoveredByPolygon(p, 1) /\ CoveredByRectangle(p) /\ file.image[p] = White
    /\ \E p \in DOMAIN file.image :
          CoveredByPolygon(p, 2) /\ ~CoveredByRectangle(p) /\ file.image[p] = White
    /\ \E p \in DOMAIN file.image : file.image[p] = Opaque(DefaultRgb)
    /\ \E p \in DOMAIN file.image : file.image[p] = Transparent

C6_NoRectangleStillDraws ==
    /\ pc = "returned"
    /\ ~doc.rect.present
    /\ \E p \in DOMAIN file.image : file.image[p] = White
    /\ \A p \in DOMAIN file.image : file.image[p] \in {White, Transparent}

\* C7 (as claimed): a document with no polygon renders to the background fill
\* and transparency only, with no white pixel, whatever its first stop colour.
C7_NoPolygonNoWhite ==
    (pc = "returned" /\ doc.polygons = <<>>) =>
        \A p \in DOMAIN file.image :
            /\ file.image[p] # <<255, 255, 255, 255>>
            /\ file.image[p] =
                  IF CoveredByRectangle(p)
                  THEN <<bg_rgb[1], bg_rgb[2], bg_rgb[3], 255>>
                  ELSE <<0, 0, 0, 0>>

\* C7 (amended): a document with no polygon renders to the background fill and
\* transparency only; it has no white pixel unless its first stop colour is
\* itself white (#FFFFFF), which then is the background fill.
C7_NoPolygonWhiteOnlyAsBackground ==
    (pc = "returned" /\ doc.polygons = <<>>) =>
        \A p \in DOMAIN file.image :
            /\ file.image[p] =
                  IF CoveredByRectangle(p)
                  THEN <<bg_rgb[1], bg_rgb[2], bg_rgb[3], 255>>
                  ELSE <<0, 0, 0, 0>>
            /\ HexToRgb(StopColor(doc.stops[1])).rgb # <<255, 255, 255>> =>
                  file.image[p] # <<255, 255, 255, 255>>

C7_BackgroundOnly ==
    /\ pc = "returned"
    /\ doc.polygons = <<>>
    /\ doc.rect.present
    /\ doc.stops[1] = hex_0B3571
    /\ \E p \in DOMAIN file.image : file.image[p] = Opaque(DefaultRgb)
    /\ \E p \in DOMAIN file.image : file.image[p] = Transparent

\* the numbers of a well-formed point string, unscaled
SourcePoints(points_str) ==
    LET tokens == split(points_str)
    IN  [n \in 1..Len(tokens) |->
            <<float(splitOn(tokens[n], ",")[1]).val, float(splitOn(tokens[n], ",")[2]).val>>]

\* the width field of the viewBox, 100 without a viewBox
SourceWidth == IF doc.viewBox = Absent THEN <<100, 1>> ELSE float(split(doc.viewBox)[3]).val

\* the draw calls made for polygons, in order
PolygonCalls == SelectSeq(drawn, LAMBDA c : c.op = "polygon")
RectangleCalls == SelectSeq(drawn, LAMBDA c : c.op = "rounded_rectangle")

\* x * S / W for a viewBox of width W and a target size S
ScaledBy(x, S, W) == <<x[1] * S * W[2], x[2] * W[1]>>

\* C9: every drawn vertex is (x * S / W, y * S / W) and the drawn radius is
\* rx * S / W, for the viewBox width W and the target size S, whatever the
\* viewBox height; rx = 20, S = 128, W = 100 gives 25.6 = 128 / 5.
C9_UniformScale ==
    /\ ScaleComputed => REq(scale, ScaledBy(<<1, 1>>, size, SourceWidth))
    /\ \A k \in 1..Len(PolygonCalls) :
          LET src == SourcePoints(doc.polygons[k])
              out == PolygonCalls[k].points
          IN  /\ Len(out) = Len(src)
              /\ \A n \in 1..Len(src) :
                    /\ REq(out[n][1], ScaledBy(src[n][1], size, SourceWidth))
                    /\ REq(out[n][2], ScaledBy(src[n][2], size, SourceWidth))
    /\ \A k \in 1..Len(RectangleCalls) :
          REq(RectangleCalls[k].radius,
              ScaledBy(IF doc.rect.rx = Absent THEN <<0, 1>> ELSE float(doc.rect.rx).val,
                       size, SourceWidth))
    /\ CornerRadius([present |-> TRUE, rx |-> <<"2", "0">>],
                    Scale(128, <<100, 1>>).scale).rx = <<128, 5>>

C9_NonSquareScaled ==
    /\ pc = "returned"
    /\ doc.viewBox = vb_0_0_3_6
    /\ size # 3
    /\ Len(PolygonCalls) = 2
    /\ Len(RectangleCalls) = 1
    /\ doc.rect.rx = <<"2">>
    /\ REq(PolygonCalls[1].points[2][1], <<4 * size, 3>>)
    /\ REq(RectangleCalls[1].radius, <<2 * size, 3>>)

(***************************************************************************)
(* Properties of the driver loop                                           *)
(***************************************************************************)

FirstIndices(n) == [k \in 1..n |-> k]

\* C1: an exception of one pair's render is caught at that pair and a failure
\* marker is logged for it; whichever pairs fail, the pairs are attempted once
\* each in list order, and the batch reaches its end.
C1_BatchSurvivesFailures ==
    /\ [](dpc # "idle" =>
            /\ dpc # "crashed"
            /\ attempted = FirstIndices(i - 1)
            /\ Len(log) = Len(attempted)
            /\ \A k \in 1..Len(log) :
                  /\ log[k] \in {"created", "error"}
                  /\ RenderExc(script, doc, sizes(script)[k][1]) # "none" => log[k] = "error"
                  /\ log[k] = "error" <=> fs[sizes(script)[k][2]].state # "written"
            /\ dpc = "done" => attempted = FirstIndices(Len(sizes(script))))
    /\ (dpc = "loop") ~> (dpc = "done")

C1_FailuresInTheMiddle ==
    /\ dpc = "done"
    /\ script = "svg_to_icons"
    /\ Len(attempted) = Len(sizes_svg_to_icons)
    /\ log[1] = "error"
    /\ log[2] = "created"
    /\ log[5] = "error"
    /\ log[Len(log)] = "created"

DecidedOnInput(px, width, height) ==
    [p \in DOMAIN px |->
        IF LikelyWhite(px[p]) /\ IsInside(px, width, height, p[1], p[2])
        THEN <<255, 255, 255, 255>>
        ELSE px[p]]

Reversed(order) == [n \in 1..Len(order) |-> order[Len(order) + 1 - n]]

ColumnMajor(width, height) ==
    [n \in 1..(width * height) |-> <<(n - 1) \div height, (n - 1) % height>>]

====
